---- MODULE Spec2Model ----
(***************************************************************************)
(* A model of simple_svg.hpp: the coordinate transforms, the style values, *)
(* the shape family with its offset / clone / toString operations, the     *)
(* Container with its owned children and the Document.                     *)
(*                                                                         *)
(* A std::string is a sequence of atoms.  The atom "\n" is the line break, *)
(* the atom "\t" the tab; every other atom is a run of characters holding  *)
(* no line break.  A double is modelled by an integer (the claims are      *)
(* stated over integer-valued coordinates) and is printed the way          *)
(* operator<<(double) prints an integer-valued double below 10^6.          *)
(***************************************************************************)
EXTENDS Integers, Sequences, FiniteSets, TLC

VARIABLES
    arg,        \* the inputs of a call of a pure function
    ret,        \* the last call's result
    heap,       \* the shape objects, by address
    roots,      \* the addresses of the objects the caller holds
    doc,        \* the Document
    last,       \* history: the last operation on a shape and what it replaced
    trace,      \* history: the point / subpath operations on object 1 since its construction
    appended,   \* history: the shapes appended to the Document, as they were then
    file        \* the file system's file of the Document's file_name

vars == <<arg, ret, heap, roots, doc, last, trace, appended, file>>

world == <<heap, roots, doc, last, trace, appended, file>>

(***************************************************************************)
(* Bounds of the model.                                                    *)
(***************************************************************************)
MaxCoord == 2
MaxDim == 3
MaxScale == 2
MaxWidth == 2

Origins == {"TopLeft", "BottomLeft", "TopRight", "BottomRight"}
Coords == (0 - MaxCoord)..MaxCoord
Dims == 0..MaxDim
Scales == (0 - 1)..MaxScale
Inputs == (0 - MaxCoord)..MaxDim
BOOL == {TRUE, FALSE}

(***************************************************************************)
(* Geometry primitives and Layout.                                         *)
(***************************************************************************)
Point(x, y) == [x |-> x, y |-> y]

Dimensions(width, height) == [width |-> width, height |-> height]

(***************************************************************************)
(* optional<T>: a value with a validity flag. An invalid optional holds a  *)
(* default-constructed T, which operator-> never hands out: it throws.     *)
(***************************************************************************)
\* optional<T>(type)
optional(type) == [valid |-> TRUE, type |-> type]

\* optional<Point>(): type(T()) is Point(0, 0)
optional_Point == [valid |-> FALSE, type |-> Point(0, 0)]

\* optional<Dimensions>(): type(T()) is Dimensions(0)
optional_Dimensions == [valid |-> FALSE, type |-> Dimensions(0, 0)]

\* an operator-> that hands out the stored value, valid or not
optional_arrow_silent(o) == [throws |-> FALSE, value |-> o.type]

\* operator->: throws std::exception on an invalid optional, and gives
\* access to the stored value otherwise
optional_arrow(o) ==
    IF ~o.valid
    THEN [throws |-> TRUE]
    ELSE [throws |-> FALSE, value |-> o.type]

\* operator!
optional_not(o) == ~o.valid

\* the loop of getMinPoint from the i-th point on
RECURSIVE getMinPoint_loop(_, _, _)
getMinPoint_loop(points, i, min) ==
    IF i > Len(points) THEN min
    ELSE getMinPoint_loop(points, i + 1,
            Point(IF points[i].x < min.x THEN points[i].x ELSE min.x,
                  IF points[i].y < min.y THEN points[i].y ELSE min.y))

getMinPoint(points) ==
    IF points = <<>>
    THEN optional_Point
    ELSE optional(getMinPoint_loop(points, 1, points[1]))

\* the loop of getMaxPoint from the i-th point on
RECURSIVE getMaxPoint_loop(_, _, _)
getMaxPoint_loop(points, i, max) ==
    IF i > Len(points) THEN max
    ELSE getMaxPoint_loop(points, i + 1,
            Point(IF points[i].x > max.x THEN points[i].x ELSE max.x,
                  IF points[i].y > max.y THEN points[i].y ELSE max.y))

getMaxPoint(points) ==
    IF points = <<>>
    THEN optional_Point
    ELSE optional(getMaxPoint_loop(points, 1, points[1]))

Layout(dimensions, origin, scale, origin_offset) ==
    [dimensions |-> dimensions, scale |-> scale, origin |-> origin,
     origin_offset |-> origin_offset]

Layouts ==
    {Layout(Dimensions(w, h), o, s, Point(ox, oy)) :
        w \in Dims, h \in Dims, o \in Origins, s \in Scales,
        ox \in Coords, oy \in Coords}

(***************************************************************************)
(* Convert coordinates in user space to SVG native space.                  *)
(***************************************************************************)
translateX_copyPaste(x, layout) ==
    IF layout.origin = "BottomLeft" \/ layout.origin = "BottomRight"
    THEN layout.dimensions.width - ((x + layout.origin_offset.x) * layout.scale)
    ELSE (layout.origin_offset.x + x) * layout.scale

translateX(x, layout) ==
    IF layout.origin = "BottomRight" \/ layout.origin = "TopRight"
    THEN layout.dimensions.width - ((x + layout.origin_offset.x) * layout.scale)
    ELSE (layout.origin_offset.x + x) * layout.scale

translateY_alwaysFlip(y, layout) ==
    layout.dimensions.height - ((y + layout.origin_offset.y) * layout.scale)

translateY_neverFlip(y, layout) ==
    (layout.origin_offset.y + y) * layout.scale

translateY(y, layout) ==
    IF layout.origin = "BottomLeft" \/ layout.origin = "BottomRight"
    THEN layout.dimensions.height - ((y + layout.origin_offset.y) * layout.scale)
    ELSE (layout.origin_offset.y + y) * layout.scale

translateScale(dimension, layout) == dimension * layout.scale

(***************************************************************************)
(* Utility XML/String functions.                                           *)
(***************************************************************************)
\* operator<< of an integer-valued double with fewer than seven digits
NumStr(v) == ToString(v)

attribute(attribute_name, value, unit) ==
    <<attribute_name \o "=\"" \o value \o unit \o "\" ">>

elemStart(element_name) == <<"<" \o element_name \o " ">>

elemEnd(element_name) == <<"</" \o element_name \o ">", "\n">>

emptyElemEnd == <<"/>", "\n">>

(***************************************************************************)
(* Style values: Color, Fill, Stroke, Font.                                *)
(***************************************************************************)
Color(r, g, b) == [transparent |-> FALSE, red |-> r, green |-> g, blue |-> b]

Color_Defaults(color) ==
    CASE color = "Aqua"    -> Color(0, 255, 255)
      [] color = "Black"   -> Color(0, 0, 0)
      [] color = "Blue"    -> Color(0, 0, 255)
      [] color = "Brown"   -> Color(165, 42, 42)
      [] color = "Cyan"    -> Color(0, 255, 255)
      [] color = "Fuchsia" -> Color(255, 0, 255)
      [] color = "Green"   -> Color(0, 128, 0)
      [] color = "Lime"    -> Color(0, 255, 0)
      [] color = "Magenta" -> Color(255, 0, 255)
      [] color = "Orange"  -> Color(255, 165, 0)
      [] color = "Purple"  -> Color(128, 0, 128)
      [] color = "Red"     -> Color(255, 0, 0)
      [] color = "Silver"  -> Color(192, 192, 192)
      [] color = "White"   -> Color(255, 255, 255)
      [] color = "Yellow"  -> Color(255, 255, 0)
      [] OTHER -> [transparent |-> TRUE, red |-> 0, green |-> 0, blue |-> 0]

Transparent == Color_Defaults("Transparent")

Color_toString(c) ==
    IF c.transparent
    THEN "none"
    ELSE "rgb(" \o NumStr(c.red) \o "," \o NumStr(c.green) \o ","
            \o NumStr(c.blue) \o ")"

Fill(color) == [color |-> color]

Fill_toString(fill, layout) == attribute("fill", Color_toString(fill.color), "")

Stroke(width, color, nonScalingStroke) ==
    [width |-> width, color |-> color, nonScaling |-> nonScalingStroke]

\* Stroke(): the default, invalid, stroke
NoStroke == Stroke(0 - 1, Transparent, FALSE)

Stroke_toString_zeroInvalid(stroke, layout) ==
    IF stroke.width <= 0
    THEN <<>>
    ELSE attribute("stroke-width", NumStr(translateScale(stroke.width, layout)), "")
         \o attribute("stroke", Color_toString(stroke.color), "")
         \o (IF stroke.nonScaling
             THEN attribute("vector-effect", "non-scaling-stroke", "")
             ELSE <<>>)

Stroke_toString(stroke, layout) ==
    IF stroke.width < 0
    THEN <<>>
    ELSE attribute("stroke-width", NumStr(translateScale(stroke.width, layout)), "")
         \o attribute("stroke", Color_toString(stroke.color), "")
         \o (IF stroke.nonScaling
             THEN attribute("vector-effect", "non-scaling-stroke", "")
             ELSE <<>>)

Font(size, family) == [size |-> size, family |-> family]

Font_toString(font, layout) ==
    attribute("font-size", NumStr(translateScale(font.size, layout)), "")
    \o attribute("font-family", font.family, "")

(***************************************************************************)
(* Values left alone by a specification that does not use them.            *)
(***************************************************************************)
NoCall == [fn |-> "none"]
NoArg == [kind |-> "none"]
NoHeap == <<>>
NoDoc == [file_name |-> "", layout |-> NoArg, body_nodes_str_list |-> <<>>]
NoOp == [op |-> "none"]
NoFile == [exists |-> FALSE, content |-> <<>>]

(***************************************************************************)
(* SpecTransform: the three coordinate transforms applied to a Layout      *)
(* drawn from Layouts and an input value drawn from Inputs.                *)
(***************************************************************************)
InitTransform ==
    /\ arg \in Layouts
    /\ ret = NoCall
    /\ heap = NoHeap
    /\ roots = {}
    /\ doc = NoDoc
    /\ last = NoOp
    /\ trace = <<>>
    /\ appended = <<>>
    /\ file = NoFile

CallTranslateX ==
    /\ \E x \in Inputs :
          ret' = [fn |-> "translateX", in |-> x, out |-> translateX(x, arg)]
    /\ UNCHANGED <<arg, world>>

CallTranslateY ==
    /\ \E y \in Inputs :
          ret' = [fn |-> "translateY", in |-> y, out |-> translateY(y, arg)]
    /\ UNCHANGED <<arg, world>>

CallTranslateScale ==
    /\ \E d \in Inputs :
          ret' = [fn |-> "translateScale", in |-> d, out |-> translateScale(d, arg)]
    /\ UNCHANGED <<arg, world>>

NextTransform == CallTranslateX \/ CallTranslateY \/ CallTranslateScale

SpecTransform == InitTransform /\ [][NextTransform]_vars

RightEdge(origin) == origin \in {"TopRight", "BottomRight"}
BottomEdge(origin) == origin \in {"BottomLeft", "BottomRight"}

\* C1: for every Layout and every input value, translateX(x) is
\* width - (x + origin_offset.x) * scale when the origin is on the right edge
\* and (origin_offset.x + x) * scale otherwise; translateY(y) is
\* height - (y + origin_offset.y) * scale when the origin is on the bottom edge
\* and (origin_offset.y + y) * scale otherwise; translateScale(d) is d * scale
\* whatever the origin and the origin_offset are.
C1_TransformFormulas ==
    /\ ret.fn = "translateX" =>
          ret.out = IF RightEdge(arg.origin)
                    THEN arg.dimensions.width - (ret.in + arg.origin_offset.x) * arg.scale
                    ELSE (arg.origin_offset.x + ret.in) * arg.scale
    /\ ret.fn = "translateY" =>
          ret.out = IF BottomEdge(arg.origin)
                    THEN arg.dimensions.height - (ret.in + arg.origin_offset.y) * arg.scale
                    ELSE (arg.origin_offset.y + ret.in) * arg.scale
    /\ ret.fn = "translateScale" => ret.out = ret.in * arg.scale

C1_Witness ==
    /\ ret.fn = "translateX"
    /\ arg.origin = "TopRight"
    /\ arg.scale = 2
    /\ arg.origin_offset.x = 1
    /\ arg.dimensions.width = 3
    /\ ret.in = 1
    /\ ret.out = 0 - 1

IsIdentityLayout(layout) ==
    /\ layout.origin = "TopLeft"
    /\ layout.scale = 1
    /\ layout.origin_offset = Point(0, 0)

\* C2: with origin TopLeft, scale 1 and zero origin_offset, translateX,
\* translateY and translateScale return their input unchanged, for every
\* input value and every canvas size.
C2_IdentityTransform ==
    (IsIdentityLayout(arg) /\ ret.fn # "none") => ret.out = ret.in

C2_Witness ==
    /\ IsIdentityLayout(arg)
    /\ arg.dimensions = Dimensions(3, 2)
    /\ ret.fn = "translateY"
    /\ ret.in = 2
    /\ ret.out = 2

\* C3: for origin BottomLeft, scale 1 and zero origin_offset, on a canvas of
\* height H, translateY maps y = 0 to H and y = H to 0, for every H.
C3_FlipCorrectness ==
    ( /\ arg.origin = "BottomLeft"
      /\ arg.scale = 1
      /\ arg.origin_offset = Point(0, 0)
      /\ ret.fn = "translateY" ) =>
        /\ ret.in = 0 => ret.out = arg.dimensions.height
        /\ ret.in = arg.dimensions.height => ret.out = 0

C3_Witness ==
    /\ arg.origin = "BottomLeft"
    /\ arg.scale = 1
    /\ arg.origin_offset = Point(0, 0)
    /\ arg.dimensions.height = 3
    /\ ret.fn = "translateY"
    /\ ret.in = 3
    /\ ret.out = 0

(***************************************************************************)
(* SpecStroke: Stroke::toString applied to a Stroke and a Layout drawn     *)
(* from bounded sets.                                                      *)
(***************************************************************************)
StrokeWidths == (0 - MaxWidth)..MaxWidth

SomeColors == {Transparent, Color(100, 200, 120), Color_Defaults("Red")}

Strokes ==
    {Stroke(w, c, n) : w \in StrokeWidths, c \in SomeColors, n \in BOOL}

StrokeLayouts ==
    {Layout(Dimensions(MaxDim, MaxDim), o, s, Point(0, 0)) :
        o \in Origins, s \in Scales}

InitStroke ==
    /\ arg \in [stroke : Strokes, layout : StrokeLayouts]
    /\ ret = NoCall
    /\ heap = NoHeap
    /\ roots = {}
    /\ doc = NoDoc
    /\ last = NoOp
    /\ trace = <<>>
    /\ appended = <<>>
    /\ file = NoFile

CallStrokeToString ==
    /\ ret' = [fn |-> "Stroke::toString",
               out |-> Stroke_toString(arg.stroke, arg.layout)]
    /\ UNCHANGED <<arg, world>>

NextStroke == CallStrokeToString

SpecStroke == InitStroke /\ [][NextStroke]_vars

\* C8: Stroke::toString returns the empty string exactly when the width is
\* negative; for every width >= 0, width 0 included, it emits a stroke-width
\* attribute (width times the layout scale), then a stroke colour attribute,
\* and a vector-effect="non-scaling-stroke" attribute exactly when the
\* non-scaling flag is set.
C8_StrokeOmission ==
    ret.fn = "Stroke::toString" =>
        LET s == arg.stroke
            colour == IF s.color.transparent
                      THEN "none"
                      ELSE "rgb(" \o ToString(s.color.red) \o ","
                              \o ToString(s.color.green) \o ","
                              \o ToString(s.color.blue) \o ")"
        IN  /\ (ret.out = <<>>) <=> (s.width < 0)
            /\ s.width >= 0 =>
                  /\ Len(ret.out) = IF s.nonScaling THEN 3 ELSE 2
                  /\ ret.out[1] = "stroke-width=\"" \o ToString(s.width * arg.layout.scale)
                                      \o "\" "
                  /\ ret.out[2] = "stroke=\"" \o colour \o "\" "
                  /\ s.nonScaling =>
                        ret.out[3] = "vector-effect=\"non-scaling-stroke\" "

C8_Witness ==
    /\ ret.fn = "Stroke::toString"
    /\ arg.stroke.width = 0
    /\ arg.stroke.nonScaling
    /\ arg.layout.scale = 2
    /\ ret.out = <<"stroke-width=\"0\" ", "stroke=\"rgb(255,0,0)\" ",
                   "vector-effect=\"non-scaling-stroke\" ">>

(***************************************************************************)
(* The shape family.  A shape object is a record; its kind field names the *)
(* class.  Circle and Elipse halve the diameters they are given: the model *)
(* constructs them with even diameters only, so the stored radius is the   *)
(* exact half.                                                             *)
(***************************************************************************)
Circle(center, diameter, fill, stroke) ==
    [kind |-> "Circle", fill |-> fill, stroke |-> stroke,
     center |-> center, radius |-> diameter \div 2]

Elipse(center, width, height, fill, stroke) ==
    [kind |-> "Elipse", fill |-> fill, stroke |-> stroke,
     center |-> center, radius_width |-> width \div 2,
     radius_height |-> height \div 2]

Rectangle(edge, width, height, fill, stroke) ==
    [kind |-> "Rectangle", fill |-> fill, stroke |-> stroke,
     edge |-> edge, width |-> width, height |-> height]

Line(start_point, end_point, stroke) ==
    [kind |-> "Line", fill |-> Fill(Transparent), stroke |-> stroke,
     start_point |-> start_point, end_point |-> end_point]

Polygon(fill, stroke) ==
    [kind |-> "Polygon", fill |-> fill, stroke |-> stroke, points |-> <<>>]

\* a startNewSubPath without the test of the current subpath
startNewSubPath_always(paths) == Append(paths, <<>>)

\* Path::startNewSubPath on the vector of subpaths
startNewSubPath(paths) ==
    IF paths = <<>> \/ paths[Len(paths)] # <<>>
    THEN Append(paths, <<>>)
    ELSE paths

\* the constructor calls startNewSubPath() on the empty vector
Path(fill, stroke) ==
    [kind |-> "Path", fill |-> fill, stroke |-> stroke,
     paths |-> startNewSubPath(<<>>)]

Polyline(points, fill, stroke) ==
    [kind |-> "Polyline", fill |-> fill, stroke |-> stroke, points |-> points]

Text(origin, content, fill, font, stroke) ==
    [kind |-> "Text", fill |-> fill, stroke |-> stroke,
     origin |-> origin, content |-> content, font |-> font]

\* Shape() gives the chart the default Fill and Stroke
LineChart(margin, scale, axis_stroke) ==
    [kind |-> "LineChart", fill |-> Fill(Transparent), stroke |-> NoStroke,
     axis_stroke |-> axis_stroke, margin |-> margin, scale |-> scale,
     polylines |-> <<>>]

\* childs holds the heap addresses of the owned children
Container(fill, stroke) ==
    [kind |-> "Container", fill |-> fill, stroke |-> stroke, childs |-> <<>>]

(***************************************************************************)
(* operator<< of the point-collecting shapes and of LineChart.             *)
(***************************************************************************)
Polygon_append(s, point) == [s EXCEPT !.points = Append(@, point)]

Polyline_append(s, point) == [s EXCEPT !.points = Append(@, point)]

\* paths.back().push_back(point)
Path_append(s, point) ==
    [s EXCEPT !.paths[Len(s.paths)] = Append(@, point)]

Path_startNewSubPath(s) == [s EXCEPT !.paths = startNewSubPath(@)]

\* an operator<< without the test for a polyline with no points
LineChart_append_noCheck(s, polyline) ==
    [s EXCEPT !.polylines = Append(@, polyline)]

\* LineChart::operator<<
LineChart_append(s, polyline) ==
    IF polyline.points = <<>>
    THEN s
    ELSE [s EXCEPT !.polylines = Append(@, polyline)]

(***************************************************************************)
(* Shape::offset of every variant.                                         *)
(***************************************************************************)
Point_offset(p, offset) == Point(p.x + offset.x, p.y + offset.y)

Points_offset(points, offset) ==
    [i \in 1..Len(points) |-> Point_offset(points[i], offset)]

\* a slip that stores the offset instead of adding it
Shape_offset_assign(s, offset) ==
    CASE s.kind \in {"Circle", "Elipse"} -> [s EXCEPT !.center = offset]
      [] s.kind = "Rectangle" -> [s EXCEPT !.edge = offset]
      [] s.kind = "Line" ->
            [s EXCEPT !.start_point = offset, !.end_point = offset]
      [] s.kind \in {"Polygon", "Polyline"} ->
            [s EXCEPT !.points = [i \in 1..Len(@) |-> offset]]
      [] s.kind = "Path" ->
            [s EXCEPT !.paths =
                [i \in 1..Len(@) |-> [j \in 1..Len(@[i]) |-> offset]]]
      [] s.kind = "Text" -> [s EXCEPT !.origin = offset]
      [] s.kind = "LineChart" ->
            [s EXCEPT !.polylines =
                [i \in 1..Len(@) |->
                    [@[i] EXCEPT !.points = [j \in 1..Len(@) |-> offset]]]]
      [] s.kind = "Container" -> s

Shape_offset(s, offset) ==
    CASE s.kind \in {"Circle", "Elipse"} ->
            [s EXCEPT !.center = Point_offset(@, offset)]
      [] s.kind = "Rectangle" -> [s EXCEPT !.edge = Point_offset(@, offset)]
      [] s.kind = "Line" ->
            [s EXCEPT !.start_point = Point_offset(@, offset),
                      !.end_point = Point_offset(@, offset)]
      [] s.kind \in {"Polygon", "Polyline"} ->
            [s EXCEPT !.points = Points_offset(@, offset)]
      [] s.kind = "Path" ->
            [s EXCEPT !.paths =
                [i \in 1..Len(@) |-> Points_offset(@[i], offset)]]
      [] s.kind = "Text" -> [s EXCEPT !.origin = Point_offset(@, offset)]
      [] s.kind = "LineChart" ->
            [s EXCEPT !.polylines =
                [i \in 1..Len(@) |->
                    [@[i] EXCEPT !.points = Points_offset(@, offset)]]]
      [] s.kind = "Container" -> s

(***************************************************************************)
(* indent: the do-while loop over the line breaks of the string.           *)
(* Positions are the 0-based positions of the code.                        *)
(***************************************************************************)
npos == 0 - 1

\* original.find('\n', current)
find(original, current) ==
    LET hits == {i \in current..(Len(original) - 1) : original[i + 1] = "\n"}
    IN  IF hits = {} THEN npos
        ELSE CHOOSE i \in hits : \A j \in hits : i <= j

\* original.substr(current, next - current); next = npos reads to the end
substr(original, current, next) ==
    SubSeq(original, current + 1, IF next = npos THEN Len(original) ELSE next)

RECURSIVE indentLoop(_, _, _)
indentLoop(original, current, result) ==
    LET found == find(original, current)
        next == IF found # npos THEN found + 1 ELSE npos
        piece == substr(original, current, next)
        grown == IF piece # <<>> THEN result \o <<"\t">> \o piece ELSE result
    IN  IF next # npos /\ next # Len(original)
        THEN indentLoop(original, next, grown)
        ELSE grown

indent(original) == indentLoop(original, 0, <<>>)

(***************************************************************************)
(* toString of the shapes that own no other shape.                         *)
(***************************************************************************)
RECURSIVE Flatten(_)
Flatten(seqs) ==
    IF seqs = <<>> THEN <<>> ELSE Head(seqs) \o Flatten(Tail(seqs))

\* ss << translateX(point.x, layout) << "," << translateY(point.y, layout) << " "
PointStr(point, layout) ==
    NumStr(translateX(point.x, layout)) \o "," \o
    NumStr(translateY(point.y, layout)) \o " "

PointsStr(points, layout) ==
    [i \in 1..Len(points) |-> PointStr(points[i], layout)]

\* a toString that leaves cy in user space
Circle_toString_rawY(s, layout) ==
    elemStart("circle")
    \o attribute("cx", NumStr(translateX(s.center.x, layout)), "")
    \o attribute("cy", NumStr(s.center.y), "")
    \o attribute("r", NumStr(translateScale(s.radius, layout)), "")
    \o Fill_toString(s.fill, layout) \o Stroke_toString(s.stroke, layout)
    \o emptyElemEnd

Circle_toString(s, layout) ==
    elemStart("circle")
    \o attribute("cx", NumStr(translateX(s.center.x, layout)), "")
    \o attribute("cy", NumStr(translateY(s.center.y, layout)), "")
    \o attribute("r", NumStr(translateScale(s.radius, layout)), "")
    \o Fill_toString(s.fill, layout) \o Stroke_toString(s.stroke, layout)
    \o emptyElemEnd

Elipse_toString(s, layout) ==
    elemStart("ellipse")
    \o attribute("cx", NumStr(translateX(s.center.x, layout)), "")
    \o attribute("cy", NumStr(translateY(s.center.y, layout)), "")
    \o attribute("rx", NumStr(translateScale(s.radius_width, layout)), "")
    \o attribute("ry", NumStr(translateScale(s.radius_height, layout)), "")
    \o Fill_toString(s.fill, layout) \o Stroke_toString(s.stroke, layout)
    \o emptyElemEnd

Rectangle_toString(s, layout) ==
    elemStart("rect")
    \o attribute("x", NumStr(translateX(s.edge.x, layout)), "")
    \o attribute("y", NumStr(translateY(s.edge.y, layout)), "")
    \o attribute("width", NumStr(translateScale(s.width, layout)), "")
    \o attribute("height", NumStr(translateScale(s.height, layout)), "")
    \o Fill_toString(s.fill, layout) \o Stroke_toString(s.stroke, layout)
    \o emptyElemEnd

Line_toString(s, layout) ==
    elemStart("line")
    \o attribute("x1", NumStr(translateX(s.start_point.x, layout)), "")
    \o attribute("y1", NumStr(translateY(s.start_point.y, layout)), "")
    \o attribute("x2", NumStr(translateX(s.end_point.x, layout)), "")
    \o attribute("y2", NumStr(translateY(s.end_point.y, layout)), "")
    \o Stroke_toString(s.stroke, layout)
    \o emptyElemEnd

Polygon_toString(s, layout) ==
    elemStart("polygon")
    \o <<"points=\"">> \o PointsStr(s.points, layout) \o <<"\" ">>
    \o Fill_toString(s.fill, layout) \o Stroke_toString(s.stroke, layout)
    \o emptyElemEnd

\* the d attribute: one M ... z segment per non-empty subpath
Path_d_oneLoop(paths, layout) ==
    LET all == Flatten(paths)
    IN  IF all = <<>> THEN <<>>
        ELSE <<"M">> \o PointsStr(all, layout) \o <<"z ">>

Path_d(paths, layout) ==
    Flatten([i \in 1..Len(paths) |->
        IF paths[i] = <<>>
        THEN <<>>
        ELSE <<"M">> \o PointsStr(paths[i], layout) \o <<"z ">>])

Path_toString(s, layout) ==
    elemStart("path")
    \o <<"d=\"">> \o Path_d(s.paths, layout) \o <<"\" ">>
    \o <<"fill-rule=\"evenodd\" ">>
    \o Fill_toString(s.fill, layout) \o Stroke_toString(s.stroke, layout)
    \o emptyElemEnd

Polyline_toString(s, layout) ==
    elemStart("polyline")
    \o <<"points=\"">> \o PointsStr(s.points, layout) \o <<"\" ">>
    \o Fill_toString(s.fill, layout) \o Stroke_toString(s.stroke, layout)
    \o emptyElemEnd

Text_toString(s, layout) ==
    elemStart("text")
    \o attribute("x", NumStr(translateX(s.origin.x, layout)), "")
    \o attribute("y", NumStr(translateY(s.origin.y, layout)), "")
    \o Fill_toString(s.fill, layout) \o Stroke_toString(s.stroke, layout)
    \o Font_toString(s.font, layout)
    \o <<">", s.content>> \o elemEnd("text")

(***************************************************************************)
(* LineChart::toString. The chart scales by 1.1 and divides by 30.0, so    *)
(* its numbers are fractions: a value is carried as an integer numerator   *)
(* over a fixed denominator (tenths for the axis, sixtieths for the vertex *)
(* radius) and printed the way operator<<(double) prints it: six           *)
(* significant digits, trailing zeros dropped.                             *)
(* A call that may dereference an optional gives [throws |-> TRUE] when    *)
(* operator-> throws, and its result with throws |-> FALSE otherwise.      *)
(***************************************************************************)
RECURSIVE Pow10(_)
Pow10(k) == IF k = 0 THEN 1 ELSE 10 * Pow10(k - 1)

\* the number of decimal digits of n >= 1
RECURSIVE Digits(_)
Digits(n) == IF n < 10 THEN 1 ELSE 1 + Digits(n \div 10)

\* the decimal place of the first significant digit of a / d, 0 < a < d
RECURSIVE FirstPlace(_, _, _)
FirstPlace(a, d, z) == IF a * Pow10(z) >= d THEN z ELSE FirstPlace(a, d, z + 1)

\* f written with k digits
RECURSIVE FractionStr(_, _)
FractionStr(f, k) ==
    IF k = 0 THEN "" ELSE FractionStr(f \div 10, k - 1) \o ToString(f % 10)

\* f written with k digits, without its trailing zeros
RECURSIVE StrippedFraction(_, _)
StrippedFraction(f, k) ==
    IF k = 0 THEN ""
    ELSE IF f % 10 = 0 THEN StrippedFraction(f \div 10, k - 1)
    ELSE FractionStr(f, k)

\* operator<<(std::ostream &, double) of the value n / d, d > 0
FracStr(n, d) ==
    LET a == IF n < 0 THEN 0 - n ELSE n
        places == IF a \div d > 0 THEN 6 - Digits(a \div d)
                  ELSE FirstPlace(a, d, 1) + 5
        scaled == (2 * a * Pow10(places) + d) \div (2 * d)
        fraction == StrippedFraction(scaled % Pow10(places), places)
    IN  IF a % d = 0
        THEN NumStr(IF n < 0 THEN 0 - (a \div d) ELSE a \div d)
        ELSE (IF n < 0 THEN "-" ELSE "")
             \o ToString(scaled \div Pow10(places))
             \o (IF fraction = "" THEN "" ELSE "." \o fraction)

\* the layout in units of 1 / d: translateX and translateY of a coordinate
\* in these units give their result in these units
InUnits(layout, d) ==
    [layout EXCEPT !.dimensions = Dimensions(d * @.width, d * @.height),
                   !.origin_offset = Point(d * @.x, d * @.y)]

\* the loop of getDimensions over the polylines from the i-th on; min and
\* max are the Points the optionals min and max hold
RECURSIVE LineChart_getDimensions_loop(_, _, _, _)
LineChart_getDimensions_loop(polylines, i, min, max) ==
    IF i > Len(polylines)
    THEN [throws |-> FALSE,
          value |-> optional(Dimensions(max.x - min.x, max.y - min.y))]
    ELSE LET lo == optional_arrow(getMinPoint(polylines[i].points))
             hi == optional_arrow(getMaxPoint(polylines[i].points))
         IN  IF lo.throws \/ hi.throws
             THEN [throws |-> TRUE]
             ELSE LineChart_getDimensions_loop(polylines, i + 1,
                      Point(IF lo.value.x < min.x THEN lo.value.x ELSE min.x,
                            IF lo.value.y < min.y THEN lo.value.y ELSE min.y),
                      Point(IF hi.value.x > max.x THEN hi.value.x ELSE max.x,
                            IF hi.value.y > max.y THEN hi.value.y ELSE max.y))

\* LineChart::getDimensions; min->x and max->x are dereferenced in the
\* first pass of the loop
LineChart_getDimensions(s) ==
    IF s.polylines = <<>>
    THEN [throws |-> FALSE, value |-> optional_Dimensions]
    ELSE LET min == optional_arrow(getMinPoint(s.polylines[1].points))
             max == optional_arrow(getMaxPoint(s.polylines[1].points))
         IN  IF min.throws \/ max.throws
             THEN [throws |-> TRUE]
             ELSE LineChart_getDimensions_loop(s.polylines, 1, min.value, max.value)

\* a point given in tenths, as Polyline::toString writes it
TenthsPointStr(point, layout) ==
    FracStr(translateX(point.x, InUnits(layout, 10)), 10) \o "," \o
    FracStr(translateY(point.y, InUnits(layout, 10)), 10) \o " "

\* LineChart::axisString: the axis is a Polyline of three points, 1.1 times
\* as wide and as high as the data
LineChart_axisString(s, layout) ==
    LET dimensions == LineChart_getDimensions(s)
    IN  IF dimensions.throws
        THEN [throws |-> TRUE]
        ELSE IF optional_not(dimensions.value)
        THEN [throws |-> FALSE, out |-> <<>>]
        ELSE LET width == optional_arrow(dimensions.value).value.width * 11
                 height == optional_arrow(dimensions.value).value.height * 11
                 left == 10 * s.margin.width
                 base == 10 * s.margin.height
                 axis == <<Point(left, base + height), Point(left, base),
                           Point(left + width, base)>>
             IN  [throws |-> optional_arrow(dimensions.value).throws,
                  out |-> elemStart("polyline")
                          \o <<"points=\"">>
                          \o [i \in 1..3 |-> TenthsPointStr(axis[i], layout)]
                          \o <<"\" ">>
                          \o Fill_toString(Fill(Transparent), layout)
                          \o Stroke_toString(s.axis_stroke, layout)
                          \o emptyElemEnd]

\* Circle(point, height / 30.0, Color::Black).toString(layout): the radius
\* is height / 60
LineChart_vertex(point, height, layout) ==
    elemStart("circle")
    \o attribute("cx", NumStr(translateX(point.x, layout)), "")
    \o attribute("cy", NumStr(translateY(point.y, layout)), "")
    \o attribute("r", FracStr(translateScale(height, layout), 60), "")
    \o Fill_toString(Fill(Color_Defaults("Black")), layout)
    \o Stroke_toString(NoStroke, layout)
    \o emptyElemEnd

\* LineChart::polylineToString: getDimensions() is dereferenced once for
\* every point of the polyline
LineChart_polylineToString(s, polyline, layout) ==
    LET shifted_polyline ==
            [polyline EXCEPT !.points =
                Points_offset(@, Point(s.margin.width, s.margin.height))]
        dimensions == LineChart_getDimensions(s)
    IN  IF shifted_polyline.points = <<>>
        THEN [throws |-> FALSE, out |-> Polyline_toString(shifted_polyline, layout)]
        ELSE IF dimensions.throws \/ optional_arrow(dimensions.value).throws
        THEN [throws |-> TRUE]
        ELSE [throws |-> FALSE,
              out |-> Polyline_toString(shifted_polyline, layout)
                      \o Flatten([i \in 1..Len(shifted_polyline.points) |->
                            LineChart_vertex(
                                shifted_polyline.points[i],
                                optional_arrow(dimensions.value).value.height,
                                layout)])]

LineChart_toString(s, layout) ==
    IF s.polylines = <<>>
    THEN [throws |-> FALSE, out |-> <<>>]
    ELSE LET ret_ == [i \in 1..Len(s.polylines) |->
                         LineChart_polylineToString(s, s.polylines[i], layout)]
             axis == LineChart_axisString(s, layout)
         IN  IF (\E i \in 1..Len(s.polylines) : ret_[i].throws) \/ axis.throws
             THEN [throws |-> TRUE]
             ELSE [throws |-> FALSE,
                   out |-> Flatten([i \in 1..Len(s.polylines) |-> ret_[i].out])
                           \o axis.out]

(***************************************************************************)
(* The heap: the objects the caller holds (roots) and the children the     *)
(* Containers own through std::unique_ptr.  Addresses are 1..MaxObjs.      *)
(***************************************************************************)
MaxObjs == 5

Addrs == 1..MaxObjs

Free == [kind |-> "free"]

FreeAddrs(h) == {a \in Addrs : h[a] = Free}

\* operator new: the lowest free address
New(h) == CHOOSE a \in FreeAddrs(h) : \A b \in FreeAddrs(h) : a <= b

\* Shape::toString through the virtual call
RECURSIVE Shape_toString(_, _, _)
\* a toString without the test for no children
Container_toString_noCheck(h, a, layout) ==
    LET s == h[a]
    IN  elemStart("g")
        \o Fill_toString(s.fill, layout) \o Stroke_toString(s.stroke, layout)
        \o <<">", "\n">>
        \o Flatten([i \in 1..Len(s.childs) |->
                       indent(Shape_toString(h, s.childs[i], layout))])
        \o elemEnd("g")

Container_toString(h, a, layout) ==
    LET s == h[a]
    IN  IF s.childs = <<>>
        THEN <<>>
        ELSE elemStart("g")
             \o Fill_toString(s.fill, layout) \o Stroke_toString(s.stroke, layout)
             \o <<">", "\n">>
             \o Flatten([i \in 1..Len(s.childs) |->
                            indent(Shape_toString(h, s.childs[i], layout))])
             \o elemEnd("g")

Shape_toString(h, a, layout) ==
    LET s == h[a]
    IN  CASE s.kind = "Circle" -> Circle_toString(s, layout)
          [] s.kind = "Elipse" -> Elipse_toString(s, layout)
          [] s.kind = "Rectangle" -> Rectangle_toString(s, layout)
          [] s.kind = "Line" -> Line_toString(s, layout)
          [] s.kind = "Polygon" -> Polygon_toString(s, layout)
          [] s.kind = "Path" -> Path_toString(s, layout)
          [] s.kind = "Polyline" -> Polyline_toString(s, layout)
          [] s.kind = "Text" -> Text_toString(s, layout)
          [] s.kind = "LineChart" -> LineChart_toString(s, layout).out
          [] s.kind = "Container" -> Container_toString(h, a, layout)

\* the virtual call ends with the exception operator-> throws in the
\* toString of a LineChart, of the object or of a child it owns
RECURSIVE Shape_toString_throws(_, _, _)
Shape_toString_throws(h, a, layout) ==
    CASE h[a].kind = "LineChart" -> LineChart_toString(h[a], layout).throws
      [] h[a].kind = "Container" ->
            \E i \in 1..Len(h[a].childs) :
                Shape_toString_throws(h, h[a].childs[i], layout)
      [] OTHER -> FALSE

(***************************************************************************)
(* Shape::clone and Container's copy constructor: a Container's clone is   *)
(* a new Container copy-constructed from it, and the copy constructor      *)
(* clones every child of the source in turn; every other shape's clone is  *)
(* a memberwise copy.                                                      *)
(* Each returns the new heap and the address of the copy.                  *)
(***************************************************************************)
RECURSIVE Size(_, _)
RECURSIVE SizeAll(_, _)
SizeAll(h, addrs) ==
    IF addrs = <<>> THEN 0 ELSE Size(h, Head(addrs)) + SizeAll(h, Tail(addrs))

\* the number of objects of the subtree at a
Size(h, a) ==
    IF h[a].kind = "Container" THEN 1 + SizeAll(h, h[a].childs) ELSE 1

\* a copy constructor that copies the child pointers
Shape_clone_shallow(h, a) ==
    LET n == New(h)
    IN  [heap |-> [h EXCEPT ![n] = h[a]], addr |-> n]

RECURSIVE Shape_clone(_, _)
RECURSIVE Container_copyChilds(_, _, _, _)
Container_copyChilds(h, copy_childs, i, dst) ==
    IF i > Len(copy_childs)
    THEN h
    ELSE LET r == Shape_clone(h, copy_childs[i])
         IN  Container_copyChilds(
                 [r.heap EXCEPT ![dst].childs = Append(@, r.addr)],
                 copy_childs, i + 1, dst)

Shape_clone(h, a) ==
    LET n == New(h)
    IN  IF h[a].kind = "Container"
        THEN [heap |-> Container_copyChilds(
                           [h EXCEPT ![n] = [h[a] EXCEPT !.childs = <<>>]],
                           h[a].childs, 1, n),
              addr |-> n]
        ELSE [heap |-> [h EXCEPT ![n] = h[a]], addr |-> n]

\* an operator<< that keeps the address of the caller's shape
Container_append_noClone(h, c, child) ==
    [h EXCEPT ![c].childs = Append(@, child)]

\* an operator<< that puts the clone in front of the children
Container_append_front(h, c, child) ==
    LET r == Shape_clone(h, child)
    IN  [r.heap EXCEPT ![c].childs = <<r.addr>> \o @]

\* Container::operator<<: childs.emplace_back(child.clone())
Container_append(h, c, child) ==
    LET r == Shape_clone(h, child)
    IN  [r.heap EXCEPT ![c].childs = Append(@, r.addr)]

\* the value of an object with the values of the children it owns
RECURSIVE Deep(_, _)
Deep(h, a) ==
    IF h[a].kind = "Container"
    THEN [h[a] EXCEPT !.childs = [i \in 1..Len(@) |-> Deep(h, @[i])]]
    ELSE h[a]

(***************************************************************************)
(* The operations of the caller on the objects it holds.                   *)
(***************************************************************************)
MaxRoots == 3
MaxPts == 4
MaxShift == 1
MaxPolylines == 2
MaxChilds == 2
MaxTrace == 5

Shifts == (0 - MaxShift)..MaxShift

\* every coordinate of a shape (the guards keep them within MaxShift)
CoordsOf(s) ==
    LET xy(points) == {points[i].x : i \in 1..Len(points)}
                        \cup {points[i].y : i \in 1..Len(points)}
    IN  CASE s.kind \in {"Circle", "Elipse"} -> {s.center.x, s.center.y}
          [] s.kind = "Rectangle" -> {s.edge.x, s.edge.y}
          [] s.kind = "Line" -> xy(<<s.start_point, s.end_point>>)
          [] s.kind \in {"Polygon", "Polyline"} -> xy(s.points)
          [] s.kind = "Path" -> xy(Flatten(s.paths))
          [] s.kind = "Text" -> {s.origin.x, s.origin.y}
          [] s.kind = "LineChart" ->
                xy(Flatten([i \in 1..Len(s.polylines) |-> s.polylines[i].points]))
          [] s.kind = "Container" -> {}

Neg(offset) == Point(0 - offset.x, 0 - offset.y)

\* the trace of object 1: kept while it holds only point and subpath
\* operations and is short enough, and marked "..." from then on
Pt(point) == [op |-> "<<", point |-> point]
NewSub == [op |-> "startNewSubPath"]
Other == [op |-> "other"]
Untraced == <<[op |-> "..."]>>

Traced(a, entry) ==
    IF a # 1 THEN trace
    ELSE IF entry = Other \/ Len(trace) >= MaxTrace \/ trace = Untraced
         THEN Untraced
         ELSE Append(trace, entry)

PolygonAppend(a, point) ==
    /\ heap[a].kind = "Polygon"
    /\ Len(heap[a].points) < MaxPts
    /\ heap' = [heap EXCEPT ![a] = Polygon_append(@, point)]
    /\ last' = [op |-> "<<", addr |-> a]
    /\ trace' = Traced(a, Pt(point))
    /\ ret' = NoCall
    /\ UNCHANGED <<arg, file, roots, doc, appended>>

PolylineAppend(a, point) ==
    /\ heap[a].kind = "Polyline"
    /\ Len(heap[a].points) < MaxPts
    /\ heap' = [heap EXCEPT ![a] = Polyline_append(@, point)]
    /\ last' = [op |-> "<<", addr |-> a]
    /\ trace' = Traced(a, Pt(point))
    /\ ret' = NoCall
    /\ UNCHANGED <<arg, file, roots, doc, appended>>

PathAppend(a, point) ==
    /\ heap[a].kind = "Path"
    /\ Len(Flatten(heap[a].paths)) < MaxPts
    /\ heap' = [heap EXCEPT ![a] = Path_append(@, point)]
    /\ last' = [op |-> "<<", addr |-> a]
    /\ trace' = Traced(a, Pt(point))
    /\ ret' = NoCall
    /\ UNCHANGED <<arg, file, roots, doc, appended>>

PathStartNewSubPath(a) ==
    /\ heap[a].kind = "Path"
    /\ heap' = [heap EXCEPT ![a] = Path_startNewSubPath(@)]
    /\ last' = [op |-> "startNewSubPath", addr |-> a]
    /\ trace' = Traced(a, NewSub)
    /\ ret' = NoCall
    /\ UNCHANGED <<arg, file, roots, doc, appended>>

LineChartAppend(a, q) ==
    /\ heap[a].kind = "LineChart"
    /\ heap[q].kind = "Polyline"
    /\ Len(heap[a].polylines) < MaxPolylines
    /\ heap' = [heap EXCEPT ![a] = LineChart_append(@, heap[q])]
    /\ last' = [op |-> "<<", addr |-> a, polyline |-> q]
    /\ trace' = Traced(a, Other)
    /\ ret' = NoCall
    /\ UNCHANGED <<arg, file, roots, doc, appended>>

ContainerAppend(a, q) ==
    /\ heap[a].kind = "Container"
    /\ Len(heap[a].childs) < MaxChilds
    /\ Size(heap, q) <= Cardinality(FreeAddrs(heap))
    /\ heap' = Container_append(heap, a, q)
    /\ last' = [op |-> "<<", addr |-> a, child |-> q]
    /\ trace' = Traced(a, Other)
    /\ ret' = NoCall
    /\ UNCHANGED <<arg, file, roots, doc, appended>>

\* offset(D); the history keeps the object (with its subtree) as it was
\* before the call and, when the call before it was offset(-D) on the same
\* object, as it was before that call
Offset(a, offset) ==
    /\ \A c \in CoordsOf(Shape_offset(heap[a], offset)) : c \in Shifts
    /\ heap' = [heap EXCEPT ![a] = Shape_offset(@, offset)]
    /\ last' = [op |-> "offset", addr |-> a, offset |-> offset,
                before |-> Deep(heap, a),
                twoBack |-> IF /\ last.op = "offset"
                               /\ last.addr = a
                               /\ last.offset = Neg(offset)
                            THEN <<last.before>>
                            ELSE <<>>]
    /\ trace' = Traced(a, Other)
    /\ ret' = NoCall
    /\ UNCHANGED <<arg, file, roots, doc, appended>>

\* Container d(c), or c.clone(): the caller holds the copy
Clone(a) ==
    /\ Cardinality(roots) < MaxRoots
    /\ Size(heap, a) <= Cardinality(FreeAddrs(heap))
    /\ LET r == Shape_clone(heap, a)
       IN  /\ heap' = r.heap
           /\ roots' = roots \cup {r.addr}
           /\ last' = [op |-> "clone", addr |-> a, result |-> r.addr]
    /\ ret' = NoCall
    /\ UNCHANGED <<arg, file, doc, trace, appended>>

CallToString(a, layout) ==
    /\ ret' = IF Shape_toString_throws(heap, a, layout)
              THEN [fn |-> "toString", addr |-> a, layout |-> layout,
                    throws |-> TRUE]
              ELSE [fn |-> "toString", addr |-> a, layout |-> layout,
                    throws |-> FALSE, out |-> Shape_toString(heap, a, layout)]
    /\ last' = NoOp
    /\ UNCHANGED <<arg, file, heap, roots, doc, trace, appended>>

(***************************************************************************)
(* SpecShape: one shape of any of the ten classes, just constructed, held  *)
(* by the caller at address 1, and a Polyline at address 2 to append from. *)
(* arg is the offset D of the run: the shape is moved by D and by -D, and  *)
(* the points given to the constructors and to operator<< are (0,0) and D. *)
(***************************************************************************)
P0 == Point(0, 0)
P1 == Point(1, 0 - 1)

Directions == {P1, Point(0, 1)}

ShapePts(d) == {P0, d}

SomeFill == Fill(Color(100, 200, 120))
SomeStroke == Stroke(1, Color_Defaults("Red"), FALSE)

FreshShapes(d) ==
    {Circle(p, 2, SomeFill, NoStroke) : p \in ShapePts(d)}
    \cup {Elipse(p, 2, 4, SomeFill, NoStroke) : p \in ShapePts(d)}
    \cup {Rectangle(p, 2, 1, SomeFill, SomeStroke) : p \in ShapePts(d)}
    \cup {Line(p, q, SomeStroke) : p \in ShapePts(d), q \in ShapePts(d)}
    \cup {Polygon(SomeFill, SomeStroke)}
    \cup {Path(SomeFill, NoStroke)}
    \cup {Polyline(<<>>, Fill(Transparent), SomeStroke)}
    \cup {Text(p, "Simple SVG", SomeFill, Font(12, "Verdana"), NoStroke) :
            p \in ShapePts(d)}
    \cup {LineChart(Dimensions(0, 0), 1, SomeStroke)}
    \cup {Container(Fill(Transparent), SomeStroke)}

\* the Polyline at address 2 matters to a LineChart and a Container only
HelperPolylines(s, d) ==
    {Polyline(pts, Fill(Transparent), SomeStroke) :
        pts \in IF s.kind \in {"LineChart", "Container"}
                THEN {<<>>, <<d>>, <<P0, d>>}
                ELSE {<<>>}}

IdentityLayout == Layout(Dimensions(MaxDim, MaxDim), "TopLeft", 1, Point(0, 0))

ShapeLayouts ==
    {IdentityLayout,
     Layout(Dimensions(MaxDim, MaxDim), "BottomLeft", 1, Point(0, 0)),
     Layout(Dimensions(MaxDim, MaxDim), "BottomRight", MaxScale, Point(1, 0))}

InitShape ==
    /\ arg \in Directions
    /\ \E s \in FreshShapes(arg) : \E q \in HelperPolylines(s, arg) :
          heap = [a \in Addrs |-> IF a = 1 THEN s ELSE IF a = 2 THEN q ELSE Free]
    /\ roots = {1, 2}
    /\ ret = NoCall
    /\ doc = NoDoc
    /\ last = NoOp
    /\ trace = <<>>
    /\ appended = <<>>
    /\ file = NoFile

NextShape ==
    \/ \E p \in ShapePts(arg) : PolygonAppend(1, p)
    \/ \E p \in ShapePts(arg) : PolylineAppend(1, p)
    \/ \E p \in ShapePts(arg) : PathAppend(1, p)
    \/ PathStartNewSubPath(1)
    \/ LineChartAppend(1, 2)
    \/ \E q \in roots : ContainerAppend(1, q)
    \/ \E d \in {arg, Neg(arg)} : Offset(1, d)
    \/ \E l \in ShapeLayouts : CallToString(1, l)

SpecShape == InitShape /\ [][NextShape]_vars

\* C5: for every shape variant and every offset D, offset(D) followed by
\* offset(-D) on the same shape restores the geometry exactly: every object,
\* with every coordinate-bearing field, every point of every point list and
\* the number and lengths of the subpaths, is as it was before the two calls.
C5_OffsetRoundTrip ==
    (last.op = "offset" /\ last.twoBack # <<>>) =>
        Deep(heap, last.addr) = last.twoBack[1]

C5_Witness ==
    /\ last.op = "offset"
    /\ last.twoBack # <<>>
    /\ last.offset = P1
    /\ heap[1].kind = "Path"
    /\ Len(heap[1].paths) = 2
    /\ heap[1].paths[1] = <<P1, P0>>
    /\ heap[1].paths[2] = <<P0>>
    /\ last.before # heap[1]
    /\ last.twoBack[1] = heap[1]

\* the atoms of the d attribute of a serialized path element
DPart(out) ==
    LET close == CHOOSE k \in 3..Len(out) :
                    /\ out[k] = "\" "
                    /\ \A j \in 3..(k - 1) : out[j] # "\" "
    IN  SubSeq(out, 3, close - 1)

PointText(point, layout) ==
    ToString(translateX(point.x, layout)) \o "," \o
    ToString(translateY(point.y, layout)) \o " "

Segment(points, layout) ==
    <<"M">> \o [i \in 1..Len(points) |-> PointText(points[i], layout)] \o <<"z ">>

\* C7: on a fresh Path, appending A, B, calling startNewSubPath() and
\* appending C, D serializes a d attribute of two segments, "M A B z " then
\* "M C D z "; in general each non-empty subpath is serialized as exactly one
\* M...z segment holding its points in append order, the segments in the
\* order the subpaths were created.
C7_SubpathSegments ==
    (ret.fn = "toString" /\ heap[ret.addr].kind = "Path") =>
        LET d == DPart(ret.out)
            nonEmpty == SelectSeq(heap[ret.addr].paths, LAMBDA sp : sp # <<>>)
        IN  /\ ret.out[1] = "<path "
            /\ ret.out[2] = "d=\""
            /\ d = Flatten([i \in 1..Len(nonEmpty) |-> Segment(nonEmpty[i], ret.layout)])
            /\ \A A \in ShapePts(arg), B \in ShapePts(arg),
                  C \in ShapePts(arg), D \in ShapePts(arg) :
                  (ret.addr = 1 /\ trace = <<Pt(A), Pt(B), NewSub, Pt(C), Pt(D)>>) =>
                      d = <<"M", PointText(A, ret.layout), PointText(B, ret.layout), "z ",
                            "M", PointText(C, ret.layout), PointText(D, ret.layout), "z ">>

C7_Witness ==
    /\ ret.fn = "toString"
    /\ heap[1].kind = "Path"
    /\ trace = <<Pt(P0), Pt(P1), NewSub, Pt(P1), Pt(P0)>>
    /\ ret.layout = IdentityLayout
    /\ DPart(ret.out) = <<"M", "0,0 ", "1,-1 ", "z ", "M", "1,-1 ", "0,0 ", "z ">>

(***************************************************************************)
(* SpecContainer: two Containers and a Circle held by the caller, which    *)
(* appends them to each other, copies them, moves them and serializes them.*)
(***************************************************************************)
ContainerLayouts ==
    {IdentityLayout,
     Layout(Dimensions(MaxDim, MaxDim), "BottomLeft", 1, Point(0, 0))}

InitContainer ==
    /\ \E st \in {NoStroke, SomeStroke} :
          heap = [a \in Addrs |->
                     CASE a = 1 -> Container(Fill(Transparent), st)
                       [] a = 2 -> Circle(P0, 2, SomeFill, NoStroke)
                       [] OTHER -> Free]
    /\ roots = {1, 2}
    /\ arg = P1
    /\ ret = NoCall
    /\ doc = NoDoc
    /\ last = NoOp
    /\ trace = <<>>
    /\ appended = <<>>
    /\ file = NoFile

Containers == {a \in roots : heap[a].kind = "Container"}

NextContainer ==
    \/ \E c \in Containers, q \in roots : ContainerAppend(c, q)
    \/ \E a \in Containers : Clone(a)
    \/ \E a \in roots \ Containers : \E d \in {arg, Neg(arg)} : Offset(a, d)
    \/ \E a \in Containers : \E l \in ContainerLayouts : CallToString(a, l)

SpecContainer == InitContainer /\ [][NextContainer]_vars

\* the addresses of the subtree at a, a included
RECURSIVE Subtree(_, _)
Subtree(h, a) ==
    IF h[a].kind = "Container"
    THEN {a} \cup UNION {Subtree(h, h[a].childs[i]) : i \in 1..Len(h[a].childs)}
    ELSE {a}

\* the places (container, index) that hold the address x
Owners(h, x) ==
    {<<c, i>> \in Addrs \X (1..MaxObjs) :
        /\ h[c].kind = "Container"
        /\ i <= Len(h[c].childs)
        /\ h[c].childs[i] = x}

\* no object is owned twice, or both held by the caller and owned
Ownership ==
    \A x \in Addrs :
        /\ Cardinality(Owners(heap, x)) <= 1
        /\ x \in roots => Owners(heap, x) = {}

\* a step that duplicates: the copy has the value of the original, with
\* the values of all its descendants, and shares no object with it
CloneStep ==
    last'.op = "clone" =>
        /\ Deep(heap', last'.result) = Deep(heap, last'.addr)
        /\ Subtree(heap', last'.result) \cap Subtree(heap', last'.addr) = {}

\* a step that operates on one object the caller holds leaves every other
\* object the caller holds, with its subtree, as it was
FrameStep ==
    heap' # heap =>
        \A r \in roots : r # last'.addr => Deep(heap', r) = Deep(heap, r)

\* C6: duplicating a Container (copy construction or clone(), at any depth)
\* deep-copies every child recursively: the duplicate has the children's
\* values of the original and shares no object with it; afterwards every
\* operation on an object the caller holds (offsetting it, appending to it)
\* leaves every other object the caller holds, the duplicate or the
\* original, unchanged with its whole subtree; and no object is ever owned
\* by two containers.
C6_DeepCopyIndependence ==
    []Ownership /\ [][CloneStep /\ FrameStep]_vars

C6_Witness ==
    /\ last.op = "offset"
    /\ last.addr = 2
    /\ heap[2].center = P1
    /\ \E d \in roots \ {1, 2} :
          /\ heap[d].kind = "Container"
          /\ Len(heap[d].childs) = 1
          /\ Len(heap[1].childs) = 1
          /\ heap[d].childs[1] # heap[1].childs[1]
          /\ heap[heap[d].childs[1]].kind = "Circle"
          /\ heap[heap[d].childs[1]].center = P0
          /\ Deep(heap, d) = Deep(heap, 1)

\* the atom after position k that is not a tab (0 when there is none)
NextAtom(out, k) ==
    LET rest == {j \in (k + 1)..Len(out) : out[j] # "\t"}
    IN  IF rest = {} THEN 0 ELSE CHOOSE j \in rest : \A i \in rest : j <= i

\* a group element that encloses nothing: its start tag's line break is
\* followed by its end tag
HasEmptyGroup(out) ==
    \E k \in 1..(Len(out) - 2) :
        /\ out[k] = ">"
        /\ out[k + 1] = "\n"
        /\ NextAtom(out, k + 1) # 0
        /\ out[NextAtom(out, k + 1)] = "</g>"

Count(out, atom) == Cardinality({k \in 1..Len(out) : out[k] = atom})

\* the Containers of the subtree at a that have at least one child
Groups(h, a) ==
    {c \in Subtree(h, a) : h[c].kind = "Container" /\ h[c].childs # <<>>}

\* C9 as stated: a Container with no children serializes to "", and any
\* emitted group element encloses at least one child fragment (there is
\* never an empty group tag).
C9_NeverEmptyGroup ==
    (ret.fn = "toString" /\ heap[ret.addr].kind = "Container") =>
        /\ heap[ret.addr].childs = <<>> => ret.out = <<>>
        /\ ~HasEmptyGroup(ret.out)

\* C9 as amended: Container::toString returns "" exactly when the Container
\* has no children; every emitted group element belongs to a Container with
\* at least one child (one group per such Container of the subtree), and a
\* group is empty exactly when all the children of its Container serialize
\* to "" (children that are Containers without children).
C9_EmptyContainer ==
    (ret.fn = "toString" /\ heap[ret.addr].kind = "Container") =>
        LET c == heap[ret.addr]
        IN  /\ (ret.out = <<>>) <=> (c.childs = <<>>)
            /\ Count(ret.out, "<g ") = Cardinality(Groups(heap, ret.addr))
            /\ Count(ret.out, "</g>") = Cardinality(Groups(heap, ret.addr))
            /\ c.childs # <<>> =>
                  /\ ret.out[1] = "<g "
                  /\ SubSeq(ret.out, Len(ret.out) - 1, Len(ret.out)) = <<"</g>", "\n">>
            /\ HasEmptyGroup(ret.out) <=>
                  \E g \in Groups(heap, ret.addr) :
                      \A i \in 1..Len(heap[g].childs) :
                          Shape_toString(heap, heap[g].childs[i], ret.layout) = <<>>

C9_Witness ==
    /\ ret.fn = "toString"
    /\ ret.addr = 1
    /\ Len(heap[1].childs) = 1
    /\ heap[heap[1].childs[1]].kind = "Container"
    /\ heap[heap[1].childs[1]].childs = <<>>
    /\ heap[1].stroke = NoStroke
    /\ ret.out = <<"<g ", "fill=\"none\" ", ">", "\n", "</g>", "\n">>

(***************************************************************************)
(* Document.                                                               *)
(***************************************************************************)
Document(file_name, layout) ==
    [file_name |-> file_name, layout |-> layout, body_nodes_str_list |-> <<>>]

\* Document::operator<<: the shape is serialized when it is appended
Document_append(d, h, a) ==
    [d EXCEPT !.body_nodes_str_list = Append(@, Shape_toString(h, a, d.layout))]

\* the text up to and including the line of the root element's start tag
Document_header(d) ==
    <<"<?xml ">> \o attribute("version", "1.0", "")
    \o attribute("standalone", "no", "")
    \o <<"?>", "\n",
         "<!DOCTYPE svg PUBLIC \"-//W3C//DTD SVG 1.1//EN\" ",
         "\"http://www.w3.org/Graphics/SVG/1.1/DTD/svg11.dtd\">", "\n",
         "<svg ">>
    \o attribute("width", NumStr(d.layout.dimensions.width), "px")
    \o attribute("height", NumStr(d.layout.dimensions.height), "px")
    \o attribute("xmlns", "http://www.w3.org/2000/svg", "")
    \o attribute("version", "1.1", "")
    \o <<">", "\n">>

\* a writeToStream that wraps the body in a group unless the origin is TopLeft
Document_writeToStream_wrapper(d) ==
    Document_header(d)
    \o (IF d.layout.origin = "TopLeft" \/ d.body_nodes_str_list = <<>>
        THEN Flatten([i \in 1..Len(d.body_nodes_str_list) |->
                         indent(d.body_nodes_str_list[i])])
        ELSE indent(elemStart("g") \o <<">", "\n">>
                    \o Flatten([i \in 1..Len(d.body_nodes_str_list) |->
                                   indent(d.body_nodes_str_list[i])])
                    \o elemEnd("g")))
    \o elemEnd("svg")

Document_writeToStream(d) ==
    Document_header(d)
    \o Flatten([i \in 1..Len(d.body_nodes_str_list) |->
                   indent(d.body_nodes_str_list[i])])
    \o elemEnd("svg")

Document_toString(d) == Document_writeToStream(d)

\* a file of the file system with its content
File(content) == [exists |-> TRUE, content |-> content]

\* a save that does not test the stream it opened
Document_save_unchecked(d, f, good) ==
    [ret |-> TRUE, file |-> File(Document_writeToStream(d))]

\* Document::save; good is what ofs.good() gives once the stream is
\* constructed, and f is the file before the call. Opening an ofstream
\* truncates the file, and writeToStream then writes the document to it.
\* The result is the value returned and the file after the call.
Document_save(d, f, good) ==
    IF ~good
    THEN [ret |-> FALSE, file |-> f]
    ELSE [ret |-> TRUE, file |-> File(Document_writeToStream(d))]

(***************************************************************************)
(* SpecDoc: a Document on a 100 x 100 canvas with any of the four origins, *)
(* and a Circle and a Container held by the caller.                        *)
(***************************************************************************)
MaxBody == 2

DocLayouts ==
    {Layout(Dimensions(100, 100), o, 1, Point(0, 0)) : o \in Origins}

DemoCircle == Circle(Point(80, 80), 40, Fill(Color(100, 200, 120)), NoStroke)

InitDoc ==
    /\ \E l \in DocLayouts : doc = Document("my_svg.svg", l)
    /\ heap = [a \in Addrs |->
                  CASE a = 1 -> DemoCircle
                    [] a = 2 -> Container(Fill(Transparent), NoStroke)
                    [] OTHER -> Free]
    /\ roots = {1, 2}
    /\ arg = NoArg
    /\ ret = NoCall
    /\ last = NoOp
    /\ trace = <<>>
    /\ appended = <<>>
    /\ file \in {NoFile, File(<<"an older file", "\n">>)}

\* the objects of the subtree at a, at their addresses
Snapshot(h, a) == [x \in Addrs |-> IF x \in Subtree(h, a) THEN h[x] ELSE Free]

\* doc << shape; the history keeps the shape, with the children it owns,
\* as it was appended
DocAppend(a) ==
    /\ Len(doc.body_nodes_str_list) < MaxBody
    /\ doc' = Document_append(doc, heap, a)
    /\ appended' = Append(appended, [heap |-> Snapshot(heap, a), addr |-> a])
    /\ last' = [op |-> "doc <<", addr |-> a]
    /\ ret' = NoCall
    /\ UNCHANGED <<arg, file, heap, roots, trace>>

CallDocToString ==
    /\ ret' = [fn |-> "Document::toString", out |-> Document_toString(doc)]
    /\ last' = NoOp
    /\ UNCHANGED <<arg, file, heap, roots, doc, trace, appended>>

\* doc.save(); whether the file can be opened is the file system's choice
CallDocSave(good) ==
    /\ LET r == Document_save(doc, file, good)
       IN  /\ ret' = [fn |-> "Document::save", good |-> good, out |-> r.ret]
           /\ file' = r.file
    /\ last' = NoOp
    /\ UNCHANGED <<arg, heap, roots, doc, trace, appended>>

NextDoc ==
    \/ \E a \in roots : DocAppend(a)
    \/ \E c \in Containers, q \in roots : ContainerAppend(c, q)
    \/ CallDocToString
    \/ \E good \in BOOL : CallDocSave(good)

SpecDoc == InitDoc /\ [][NextDoc]_vars

\* C4: a Document with Layout(Dimensions(100,100), BottomLeft) to which one
\* Circle(center (80,80), diameter 40, fill rgb(100,200,120)) is appended
\* renders a root svg element with width="100px" and height="100px", and the
\* circle's serialized cy is 100 - 80 = 20 (the per-coordinate mode).
C4_EndToEnd ==
    ( /\ ret.fn = "Document::toString"
      /\ doc.layout = Layout(Dimensions(100, 100), "BottomLeft", 1, Point(0, 0))
      /\ Len(appended) = 1
      /\ Deep(appended[1].heap, appended[1].addr) = DemoCircle ) =>
        ret.out =
            <<"<?xml ", "version=\"1.0\" ", "standalone=\"no\" ", "?>", "\n",
              "<!DOCTYPE svg PUBLIC \"-//W3C//DTD SVG 1.1//EN\" ",
              "\"http://www.w3.org/Graphics/SVG/1.1/DTD/svg11.dtd\">", "\n",
              "<svg ", "width=\"100px\" ", "height=\"100px\" ",
              "xmlns=\"http://www.w3.org/2000/svg\" ", "version=\"1.1\" ", ">", "\n",
              "\t", "<circle ", "cx=\"80\" ", "cy=\"20\" ", "r=\"20\" ",
              "fill=\"rgb(100,200,120)\" ", "/>", "\n",
              "</svg>", "\n">>

C4_Witness ==
    /\ ret.fn = "Document::toString"
    /\ doc.layout.origin = "BottomLeft"
    /\ Len(appended) = 1
    /\ appended[1].addr = 1
    /\ \E k \in 1..Len(ret.out) : ret.out[k] = "cy=\"20\" "

\* the atoms of a rendered document between the root element's start tag
\* line and its end tag
Body(out) == SubSeq(out, Len(Document_header(doc)) + 1, Len(out) - 2)

\* the fragment of the i-th appended shape, as it was when it was appended
FragmentOf(i) == Shape_toString(appended[i].heap, appended[i].addr, doc.layout)

DirectBody == Flatten([i \in 1..Len(appended) |-> indent(FragmentOf(i))])

\* C10 as stated: with origin TopLeft each top-level shape is serialized
\* directly into the body; with any other origin the whole body is one
\* synthetic group that holds all the top-level shapes.
C10_WrapperBranch ==
    ret.fn = "Document::toString" =>
        IF doc.layout.origin = "TopLeft"
        THEN Body(ret.out) = DirectBody
        ELSE DirectBody # <<>> =>
                /\ Body(ret.out)[1] = "\t"
                /\ Body(ret.out)[2] = "<g "
                /\ Count(Body(ret.out), "<g ") =
                      1 + Count(DirectBody, "<g ")

\* C10 as amended: body production does not branch on the origin. For each
\* of the four origins every top-level shape is serialized directly, with
\* the Document's layout, when it is appended, and the body is these
\* fragments, indented, in append order; no synthetic group is added: the
\* body holds exactly the group elements of the appended Containers.
C10_DirectBody ==
    ret.fn = "Document::toString" =>
        /\ Body(ret.out) = DirectBody
        /\ SubSeq(ret.out, 1, Len(Document_header(doc))) = Document_header(doc)
        /\ SubSeq(ret.out, Len(ret.out) - 1, Len(ret.out)) = <<"</svg>", "\n">>
        /\ Len(doc.body_nodes_str_list) = Len(appended)
        /\ \A i \in 1..Len(appended) : doc.body_nodes_str_list[i] = FragmentOf(i)

C10_Witness ==
    /\ ret.fn = "Document::toString"
    /\ doc.layout.origin = "BottomRight"
    /\ Len(appended) = 2
    /\ appended[1].addr = 1
    /\ appended[2].addr = 2
    /\ Len(appended[2].heap[2].childs) = 1
    /\ Body(ret.out) =
          <<"\t", "<circle ", "cx=\"20\" ", "cy=\"20\" ", "r=\"20\" ",
            "fill=\"rgb(100,200,120)\" ", "/>", "\n",
            "\t", "<g ", "fill=\"none\" ", ">", "\n",
            "\t", "\t", "<circle ", "cx=\"20\" ", "cy=\"20\" ", "r=\"20\" ",
            "fill=\"rgb(100,200,120)\" ", "/>", "\n",
            "\t", "</g>", "\n">>

\* C11: Document::save returns false and writes nothing (the file is as it
\* was) when the output file cannot be opened, and returns true with the
\* file holding the whole rendered document otherwise; neither outcome
\* changes the Document (layout, file name, body fragments), so toString
\* renders the same text after the call as before it.
SaveStep ==
    ret'.fn = "Document::save" =>
        /\ doc' = doc
        /\ Document_toString(doc') = Document_toString(doc)
        /\ IF ret'.good
           THEN /\ ret'.out = TRUE
                /\ file'.exists
                /\ file'.content = Document_toString(doc)
           ELSE /\ ret'.out = FALSE
                /\ file' = file

C11_SaveOutcome == [][SaveStep]_vars

\* a save succeeded on the empty Document, a shape was appended, and the
\* next save could not open the file, which keeps the first save's text
C11_Witness ==
    /\ ret.fn = "Document::save"
    /\ ret.out = FALSE
    /\ Len(doc.body_nodes_str_list) = 1
    /\ file.exists
    /\ file.content = Document_header(doc) \o elemEnd("svg")
    /\ file.content # Document_toString(doc)

(***************************************************************************)
(* SpecIndent: indent applied to a string drawn from the strings of at     *)
(* most MaxLen atoms over two one-character runs and the line break.       *)
(***************************************************************************)
MaxLen == 4

Atoms == {"a", "b", "\n"}

Strings == UNION {[1..n -> Atoms] : n \in 0..MaxLen}

InitIndent ==
    /\ arg \in Strings
    /\ ret = NoCall
    /\ heap = NoHeap
    /\ roots = {}
    /\ doc = NoDoc
    /\ last = NoOp
    /\ trace = <<>>
    /\ appended = <<>>
    /\ file = NoFile

CallIndent ==
    /\ ret' = [fn |-> "indent", out |-> indent(arg)]
    /\ UNCHANGED <<arg, world>>

NextIndent == CallIndent

SpecIndent == InitIndent /\ [][NextIndent]_vars

\* position i of s begins a line: the start of the string, or just after a
\* line break
LineBegin(s, i) == i = 1 \/ s[i - 1] = "\n"

\* s with one tab in front of every line that holds a character other than
\* its line break, and nothing else changed
TabbedNonEmptyLines(s) ==
    Flatten([i \in 1..Len(s) |->
                IF LineBegin(s, i) /\ s[i] # "\n"
                THEN <<"\t", s[i]>>
                ELSE <<s[i]>>])

\* C12: indent(s) is s with exactly one tab inserted at the beginning of
\* every non-empty line and no tab in front of an empty line; no other
\* character is added, removed or reordered. For every input string.
C12_TabsNonEmptyLinesOnly ==
    ret.fn = "indent" => ret.out = TabbedNonEmptyLines(arg)

\* the string of the lines "a", "" and "b", each with its line break
C12_FailingInput ==
    /\ ret.fn = "indent"
    /\ arg = <<"a", "\n", "\n", "b">>
    /\ ret.out = <<"\t", "a", "\n", "\t", "\n", "\t", "b">>

(***************************************************************************)
(* SpecOptional: getMinPoint and getMaxPoint applied to a point collection *)
(* of at most MaxVec points, and operator! and operator-> applied to the   *)
(* optional they return.                                                   *)
(***************************************************************************)
MaxVec == 2

PointVecs ==
    UNION {[1..n -> {Point(x, y) : x \in Shifts, y \in Shifts}] : n \in 0..MaxVec}

InitOptional ==
    /\ arg \in PointVecs
    /\ ret = NoCall
    /\ heap = NoHeap
    /\ roots = {}
    /\ doc = NoDoc
    /\ last = NoOp
    /\ trace = <<>>
    /\ appended = <<>>
    /\ file = NoFile

CallGetMinPoint ==
    /\ ret' = [fn |-> "getMinPoint", out |-> getMinPoint(arg)]
    /\ UNCHANGED <<arg, world>>

CallGetMaxPoint ==
    /\ ret' = [fn |-> "getMaxPoint", out |-> getMaxPoint(arg)]
    /\ UNCHANGED <<arg, world>>

\* !o on the optional a call has just returned
CallOptionalNot ==
    /\ ret.fn \in {"getMinPoint", "getMaxPoint"}
    /\ ret' = [fn |-> "operator!", of |-> ret.fn, out |-> optional_not(ret.out)]
    /\ UNCHANGED <<arg, world>>

\* o-> on the optional a call has just returned
CallOptionalArrow ==
    /\ ret.fn \in {"getMinPoint", "getMaxPoint"}
    /\ ret' = [fn |-> "operator->", of |-> ret.fn, out |-> optional_arrow(ret.out)]
    /\ UNCHANGED <<arg, world>>

NextOptional ==
    \/ CallGetMinPoint
    \/ CallGetMaxPoint
    \/ CallOptionalNot
    \/ CallOptionalArrow

SpecOptional == InitOptional /\ [][NextOptional]_vars

\* p is the component-wise minimum of the points: no point has a smaller x
\* or y, and some point has that x and some point that y
IsMinOf(p, points) ==
    /\ \A i \in 1..Len(points) : p.x <= points[i].x /\ p.y <= points[i].y
    /\ \E i \in 1..Len(points) : p.x = points[i].x
    /\ \E i \in 1..Len(points) : p.y = points[i].y

IsMaxOf(p, points) ==
    /\ \A i \in 1..Len(points) : p.x >= points[i].x /\ p.y >= points[i].y
    /\ \E i \in 1..Len(points) : p.x = points[i].x
    /\ \E i \in 1..Len(points) : p.y = points[i].y

\* C13: getMinPoint and getMaxPoint of an empty collection return an
\* invalid optional (operator! is true) and operator-> on it throws instead
\* of yielding a value; of a non-empty collection they return a valid
\* optional (operator! is false) whose operator-> throws nothing and yields
\* the component-wise minimum, respectively maximum, of the points.
C13_OptionalAccess ==
    /\ ret.fn \in {"getMinPoint", "getMaxPoint"} =>
          ret.out.valid = (arg # <<>>)
    /\ ret.fn = "operator!" => ret.out = (arg = <<>>)
    /\ ret.fn = "operator->" =>
          IF arg = <<>>
          THEN ret.out.throws
          ELSE /\ ~ret.out.throws
               /\ ret.of = "getMinPoint" => IsMinOf(ret.out.value, arg)
               /\ ret.of = "getMaxPoint" => IsMaxOf(ret.out.value, arg)

C13_Witness ==
    /\ ret.fn = "operator->"
    /\ ret.of = "getMinPoint"
    /\ arg = <<>>
    /\ ret.out.throws

\* every Path object has a current subpath, and only the current (last)
\* subpath may be empty
PathShape(s) ==
    /\ s.paths # <<>>
    /\ \A i \in 1..(Len(s.paths) - 1) : s.paths[i] # <<>>

\* a startNewSubPath step adds one empty subpath when the current subpath
\* holds a point and changes nothing otherwise; on a Path just constructed
\* and right after another startNewSubPath it changes nothing
StartNewSubPathStep ==
    last'.op = "startNewSubPath" =>
        LET a == last'.addr
            paths == heap[a].paths
        IN  /\ heap'[a].paths = IF paths[Len(paths)] # <<>>
                                THEN Append(paths, <<>>)
                                ELSE paths
            /\ (trace = <<>> \/ last.op = "startNewSubPath") => heap' = heap

\* C14: after any sequence of Path construction, operator<< and
\* startNewSubPath calls the subpath list is non-empty and no subpath but
\* the last is empty; startNewSubPath adds a subpath only when the current
\* one is non-empty, so on a fresh Path or twice in a row it changes nothing.
C14_SubpathList ==
    /\ [](\A a \in Addrs : heap[a].kind = "Path" => PathShape(heap[a]))
    /\ [][StartNewSubPathStep]_vars

\* startNewSubPath on the fresh Path, a point, startNewSubPath twice, a point
C14_Witness ==
    /\ heap[1].kind = "Path"
    /\ trace = <<NewSub, Pt(P0), NewSub, NewSub, Pt(arg)>>
    /\ heap[1].paths = <<<<P0>>, <<arg>>>>

(***************************************************************************)
(* SpecOrder: the caller of SpecDoc when it only appends, to the Container *)
(* and to the Document.                                                    *)
(***************************************************************************)
NextOrder ==
    \/ \E a \in roots : DocAppend(a)
    \/ \E c \in Containers, q \in roots : ContainerAppend(c, q)

SpecOrder == InitDoc /\ [][NextOrder]_vars

\* the atoms of a Container's fragment between the line of the group's
\* start tag and the group's end tag; the empty fragment has none
GroupBody(out) ==
    IF out = <<>> THEN <<>> ELSE SubSeq(out, find(out, 0) + 2, Len(out) - 2)

\* container << child: the group holds what it held, followed by the
\* indented fragment of the shape appended
ContainerAppendStep ==
    (last'.op = "<<" /\ heap[last'.addr].kind = "Container") =>
        LET c == last'.addr
        IN  /\ Len(heap'[c].childs) = Len(heap[c].childs) + 1
            /\ GroupBody(Shape_toString(heap', c, doc.layout)) =
                  GroupBody(Shape_toString(heap, c, doc.layout))
                  \o indent(Shape_toString(heap, last'.child, doc.layout))

\* doc << shape: the body holds what it held, followed by the indented
\* fragment of the shape appended
DocAppendStep ==
    last'.op = "doc <<" =>
        /\ Len(doc'.body_nodes_str_list) = Len(doc.body_nodes_str_list) + 1
        /\ Body(Document_toString(doc')) =
              Body(Document_toString(doc))
              \o indent(Shape_toString(heap, last'.addr, doc.layout))

\* C15: serialization preserves insertion order. Every append to a
\* Container adds the appended shape's fragment, once, after the fragments
\* the group already holds (nested Containers being fragments built the
\* same way), and every append to the Document adds the shape's fragment,
\* once, after the fragments the body already holds.
C15_InsertionOrder == [][ContainerAppendStep /\ DocAppendStep]_vars

\* the Container got the Circle and then a copy of itself; the Document got
\* the Container and then the Circle
C15_Witness ==
    /\ last.op = "<<"
    /\ last.addr = 2
    /\ Len(heap[2].childs) = 2
    /\ heap[heap[2].childs[1]].kind = "Circle"
    /\ heap[heap[2].childs[2]].kind = "Container"
    /\ Len(doc.body_nodes_str_list) = 2
    /\ doc.body_nodes_str_list[1] # <<>>
    /\ doc.body_nodes_str_list[1][1] = "<g "
    /\ doc.body_nodes_str_list[2] # <<>>
    /\ doc.body_nodes_str_list[2][1] = "<circle "

(***************************************************************************)
(* SpecCapture: a Container (address 1) and a Path (address 2) held by the *)
(* caller, and a Document. The caller appends the Path to the Container    *)
(* and either of them to the Document, and goes on changing its own Path   *)
(* (points, subpaths, offsets) and Container (more children). At most      *)
(* MaxGrow points, children and fragments are added.                       *)
(***************************************************************************)
MaxGrow == 1

InitCapture ==
    /\ heap = [a \in Addrs |->
                  CASE a = 1 -> Container(Fill(Transparent), NoStroke)
                    [] a = 2 -> Path(SomeFill, NoStroke)
                    [] OTHER -> Free]
    /\ roots = {1, 2}
    /\ doc = Document("my_svg.svg",
                      Layout(Dimensions(MaxDim, MaxDim), "BottomLeft", 1, P0))
    /\ arg = P1
    /\ ret = NoCall
    /\ last = NoOp
    /\ trace = <<>>
    /\ appended = <<>>
    /\ file = NoFile

NextCapture ==
    \/ Len(Flatten(heap[2].paths)) < MaxGrow /\ PathAppend(2, arg)
    \/ PathStartNewSubPath(2)
    \/ Offset(2, Neg(arg))
    \/ Len(heap[1].childs) < MaxGrow /\ ContainerAppend(1, 2)
    \/ \E a \in roots :
          Len(doc.body_nodes_str_list) < MaxGrow /\ DocAppend(a)

SpecCapture == InitCapture /\ [][NextCapture]_vars

\* the object a step operates on: the target of an append to a shape, of a
\* startNewSubPath or of an offset; an append to the Document has none
Target == IF last'.op = "doc <<" THEN 0 ELSE last'.addr

\* a step leaves every shape the caller holds, other than the one it
\* operates on, as it was, with its rendered output; an append to a
\* Container stores the value the appended shape has at that moment
ShapeCaptureStep ==
    /\ \A r \in roots :
          r # Target =>
              /\ Deep(heap', r) = Deep(heap, r)
              /\ Shape_toString(heap', r, doc.layout) =
                    Shape_toString(heap, r, doc.layout)
    /\ (last'.op = "<<" /\ heap[Target].kind = "Container") =>
          LET childs == heap'[Target].childs
          IN  Deep(heap', childs[Len(childs)]) = Deep(heap, last'.child)

\* only an append to the Document changes the Document and what it
\* renders, and it stores the fragment the appended shape has at that
\* moment under the Document's layout and leaves every shape as it was
DocCaptureStep ==
    IF last'.op = "doc <<"
    THEN /\ heap' = heap
         /\ doc'.body_nodes_str_list =
               Append(doc.body_nodes_str_list,
                      Shape_toString(heap, last'.addr, doc.layout))
    ELSE /\ doc' = doc
         /\ Document_toString(doc') = Document_toString(doc)

\* C16: appending captures a shape by value at the moment of the append.
\* Container::operator<< stores a clone and Document::operator<< stores the
\* fragment, so no later operation on the caller's shape (offset, appending
\* points, startNewSubPath, appending children to a Container already
\* appended) changes what a Container it was appended to or the Document
\* renders, and the append leaves the appended shape as it was.
C16_CaptureByValue == [][ShapeCaptureStep /\ DocCaptureStep]_vars

\* the Document got the Container while it was empty, the Container then
\* got the Path while it was empty, and the Path has been changed since
C16_Witness ==
    /\ last.op = "offset"
    /\ last.addr = 2
    /\ doc.body_nodes_str_list = <<<<>>>>
    /\ Len(heap[1].childs) = 1
    /\ heap[heap[1].childs[1]].paths = <<<<>>>>
    /\ heap[2].paths = <<<<P0>>, <<>>>>
    /\ Shape_toString(heap, 1, doc.layout) # <<>>

(***************************************************************************)
(* SpecChart: a LineChart (address 1) and a Polyline (address 2) held by   *)
(* the caller, which gives the Polyline points, appends it to the chart,   *)
(* moves and copies the chart and serializes the chart and its copies.     *)
(***************************************************************************)
InitChart ==
    /\ heap = [a \in Addrs |->
                  CASE a = 1 -> LineChart(Dimensions(1, 2), 1, SomeStroke)
                    [] a = 2 -> Polyline(<<>>, Fill(Transparent), SomeStroke)
                    [] OTHER -> Free]
    /\ roots = {1, 2}
    /\ arg = P1
    /\ ret = NoCall
    /\ doc = NoDoc
    /\ last = NoOp
    /\ trace = <<>>
    /\ appended = <<>>
    /\ file = NoFile

Charts == {a \in roots : heap[a].kind = "LineChart"}

ChartLayout == Layout(Dimensions(MaxDim, MaxDim), "BottomRight", MaxScale, P1)

NextChart ==
    \/ \E p \in ShapePts(arg) :
          Len(heap[2].points) < MaxGrow /\ PolylineAppend(2, p)
    \/ LineChartAppend(1, 2)
    \/ Offset(1, Neg(arg))
    \/ Clone(1)
    \/ \E c \in Charts : CallToString(c, ChartLayout)

SpecChart == InitChart /\ [][NextChart]_vars

\* every polyline a LineChart stores has at least one point
StoredPolylines ==
    \A a \in Addrs :
        heap[a].kind = "LineChart" =>
            \A i \in 1..Len(heap[a].polylines) :
                heap[a].polylines[i].points # <<>>

\* toString ends without the exception of operator->, and gives the empty
\* string for a chart that stores no polyline
ChartToString ==
    ret.fn = "toString" =>
        /\ ~ret.throws
        /\ heap[ret.addr].polylines = <<>> => ret.out = <<>>
        /\ heap[ret.addr].polylines # <<>> => ret.out # <<>>

\* chart << polyline with a polyline of no points changes nothing
EmptyAppendStep ==
    ( /\ last'.op = "<<"
      /\ heap[last'.addr].kind = "LineChart"
      /\ heap[last'.polyline].points = <<>> ) => heap' = heap

\* C17: after any sequence of LineChart operator<<, offset and clone
\* operations every polyline the chart stores has at least one point
\* (appending a polyline with no points leaves the chart unchanged), so
\* toString never dereferences an invalid optional, in getDimensions,
\* axisString or polylineToString, and a chart that stores no polyline
\* serializes to the empty string.
C17_ChartPolylines ==
    /\ [](StoredPolylines /\ ChartToString)
    /\ [][EmptyAppendStep]_vars

\* the chart got the Polyline twice and was copied, the original was moved,
\* and the copy is serialized
C17_Witness ==
    /\ ret.fn = "toString"
    /\ ret.addr = 3
    /\ ~ret.throws
    /\ Len(heap[3].polylines) = 2
    /\ Len(heap[1].polylines) = 2
    /\ heap[3].polylines[1] # heap[1].polylines[1]
    /\ \E k \in 1..Len(ret.out) : ret.out[k] = "<circle "

====
